---- MODULE Spec2Model ----
(***************************************************************************)
(* A model of khfong26/nba-prizepicks-model: the PrizePicks props scraper  *)
(* (src/src/scrape_prizepicks.py) and the NBA game-log fetcher             *)
(* (src/src/fetch_nba_stats.py).                                           *)
(*                                                                         *)
(* Python and JSON values are tagged tuples.  A string is held as the     *)
(* sequence of its characters, so that upper-casing, substring tests and   *)
(* formatting are computed and not assumed.  A number is held in tenths    *)
(* (25.5 is Num(255), the integer 5 is Num(50)).                           *)
(***************************************************************************)
EXTENDS Integers, Sequences, FiniteSets, TLC

VARIABLES
    projection,   \* the projection dict handed to the extraction under test
    xpc,          \* extraction harness: "input", "prop" or "matchup"
    extracted,    \* what _extract_prop_data returned: <<>> (None) or <<record>>
    matchup_out,  \* what _extract_matchup returned
    today,        \* date.today(), as a day number
    use_mock,     \* PrizePicksScraper.use_mock
    pc,           \* get_nba_props: "idle", "start", "probe", "main_page",
                  \* "fallback", "done" or "raised"
    endpoint,     \* get_nba_props: position in api_endpoints of the next request
    props,        \* get_nba_props: the local list props
    calls,        \* the requests made so far, each with the response it got
    returned,     \* what get_nba_props returned
    dirs,         \* the directories that exist
    files,        \* the files that exist: path -> content
    saves,        \* the save_to_csv calls made: arguments, day, returned path
    lpc,          \* get_player_game_logs: "idle", "ready", "returned" or "raised"
    log_in,       \* its inputs: use_mock, what the lookup and the request met
    api_calls,    \* the nba_api calls it made, in order
    log_out,      \* the table it returned
    hpc,          \* the helper under test: "idle", "input", "minutes", "opponent"
    h_in,         \* the value handed to the helper
    h_out,        \* what the helper returned or raised
    mpc,          \* get_multiple_players_game_logs: "idle", "loop", "done", "raised"
    player_names, \* its argument player_names
    multi_mock,   \* its argument use_mock
    fetches,      \* what each pass of its loop met: the name and the inputs
    multi_results \* its dict results: name -> table

(***************************************************************************)
(* Values                                                                  *)
(***************************************************************************)
Absent == <<"absent">>
None == <<"none">>
Str(s) == <<"str", s>>
Num(n) == <<"num", n>>
\* A dict as it occurs nested in a matchup field: its four keys that the
\* code reads, and whether it holds any other key.
Obj(home, home_team, away, away_team, other) ==
    <<"obj", home, home_team, away, away_team, other>>

IsStr(v) == v[1] = "str"
IsNum(v) == v[1] = "num"
IsDict(v) == v[1] = "obj"

ObjKey(k) ==
    CASE k = "home" -> 2
      [] k = "home_team" -> 3
      [] k = "away" -> 4
      [] k = "away_team" -> 5

\* Python truthiness: None, "", 0 and {} are false.
Truthy(v) ==
    CASE v[1] = "absent" -> FALSE
      [] v[1] = "none" -> FALSE
      [] v[1] = "str" -> Len(v[2]) > 0
      [] v[1] = "num" -> v[2] # 0
      [] v[1] = "obj" -> \/ \E i \in 2..5 : v[i] # Absent
                         \/ v[6]

\* Python's `a or b`: a when a is truthy, else b (whatever b is).
PyOr(a, b) == IF Truthy(a) THEN a ELSE b

\* dict.get(key): the value, None when the key is absent.
Get(d, k) == IF d[k] = Absent THEN None ELSE d[k]

\* key in dict
HasKey(d, k) == d[k] # Absent

\* nested_dict.get(key)
ObjGet(o, k) == IF o[ObjKey(k)] = Absent THEN None ELSE o[ObjKey(k)]

(***************************************************************************)
(* Strings                                                                 *)
(***************************************************************************)
LowerLetters ==
    <<"a", "b", "c", "d", "e", "f", "g", "h", "i", "j", "k", "l", "m",
      "n", "o", "p", "q", "r", "s", "t", "u", "v", "w", "x", "y", "z">>

UpperLetters ==
    <<"A", "B", "C", "D", "E", "F", "G", "H", "I", "J", "K", "L", "M",
      "N", "O", "P", "Q", "R", "S", "T", "U", "V", "W", "X", "Y", "Z">>

\* str.upper() on one character.
UpperChar(c) ==
    IF \E i \in 1..Len(LowerLetters) : LowerLetters[i] = c
    THEN UpperLetters[CHOOSE i \in 1..Len(LowerLetters) : LowerLetters[i] = c]
    ELSE c

Upper(s) == [i \in 1..Len(s) |-> UpperChar(s[i])]

\* `t in s` for strings: t occurs as a contiguous substring of s.
Contains(s, t) ==
    \E i \in 0..(Len(s) - Len(t)) : SubSeq(s, i + 1, i + Len(t)) = t

DigitChars == <<"0", "1", "2", "3", "4", "5", "6", "7", "8", "9">>

RECURSIVE IntStr(_)
IntStr(n) ==
    IF n < 10 THEN <<DigitChars[n + 1]>>
    ELSE IntStr(n \div 10) \o <<DigitChars[(n % 10) + 1]>>

\* str() of a non-negative number held in tenths: "5" for 50, "25.5" for 255.
NumStr(n) ==
    IF n % 10 = 0 THEN IntStr(n \div 10)
    ELSE IntStr(n \div 10) \o <<".">> \o IntStr(n % 10)

\* An f-string field: the string itself, or str() of a number.
Format(v) ==
    CASE v[1] = "str" -> v[2]
      [] v[1] = "num" -> NumStr(v[2])
      [] v[1] = "none" -> <<"N", "o", "n", "e">>
      [] OTHER -> <<"{", "}">>

IsDigit(c) == \E i \in 1..10 : DigitChars[i] = c

DigitVal(c) == CHOOSE i \in 0..9 : DigitChars[i + 1] = c

RECURSIVE DigitsVal(_)
DigitsVal(s) ==
    IF Len(s) = 0 THEN 0
    ELSE 10 * DigitsVal(SubSeq(s, 1, Len(s) - 1)) + DigitVal(s[Len(s)])

\* int(s) succeeds: s is a non-empty run of decimal digits.  (The inputs
\* hold no sign, blank or other spelling that int() and float() also take.)
CanInt(s) == Len(s) > 0 /\ \A i \in 1..Len(s) : IsDigit(s[i])

\* float(s) succeeds on a string: digits, or digits "." digit.
CanFloatStr(s) ==
    \/ CanInt(s)
    \/ /\ Len(s) > 2
       /\ s[Len(s) - 1] = "."
       /\ IsDigit(s[Len(s)])
       /\ CanInt(SubSeq(s, 1, Len(s) - 2))

\* float(s) of such a string, in tenths.
FloatStr(s) ==
    IF CanInt(s) THEN 10 * DigitsVal(s)
    ELSE 10 * DigitsVal(SubSeq(s, 1, Len(s) - 2)) + DigitVal(s[Len(s)])

\* float(v) succeeds: v is a number or a numeric string.
CanFloat(v) == IsNum(v) \/ (IsStr(v) /\ CanFloatStr(v[2]))

\* float(v), in tenths.
ToFloat(v) == IF IsNum(v) THEN v ELSE Num(FloatStr(v[2]))

\* date.isoformat() of day number d of January 2024.
IsoFormat(d) ==
    <<"2", "0", "2", "4", "-", "0", "1", "-">>
        \o (IF d < 10 THEN <<"0">> ELSE <<>>) \o IntStr(d)

(***************************************************************************)
(* PrizePicksScraper._extract_matchup                                      *)
(***************************************************************************)
matchup_fields == <<"matchup", "game", "opponent", "teams", "fixture">>

\* The nested-dict branch: <<string>>, or <<>> when home or away is missing.
NestedMatchup(m) ==
    LET home == PyOr(ObjGet(m, "home"), ObjGet(m, "home_team"))
        away == PyOr(ObjGet(m, "away"), ObjGet(m, "away_team"))
    IN  IF Truthy(home) /\ Truthy(away)
        THEN <<Str(Format(away) \o <<" ", "@", " ">> \o Format(home))>>
        ELSE <<>>

\* One pass of the loop body: <<value>> when the field returns, else <<>>.
FieldMatchup(p, field) ==
    IF ~HasKey(p, field) THEN <<>>
    ELSE IF IsStr(p[field]) THEN <<p[field]>>
    ELSE IF IsDict(p[field]) THEN NestedMatchup(p[field])
    ELSE <<>>

\* The loop over matchup_fields from position i on.
RECURSIVE MatchupLoop(_, _)
MatchupLoop(p, i) ==
    IF i > Len(matchup_fields) THEN <<>>
    ELSE IF FieldMatchup(p, matchup_fields[i]) # <<>>
         THEN FieldMatchup(p, matchup_fields[i])
         ELSE MatchupLoop(p, i + 1)

Unknown == Str(<<"U", "n", "k", "n", "o", "w", "n">>)

\* The fallback with the opponent forgotten.
TeamFallback_TeamOnly(p) ==
    LET team == PyOr(Get(p, "team"), Get(p, "player_team"))
    IN  IF Truthy(team) THEN team ELSE Unknown

\* The construction from team information after the loop.
TeamFallback(p) ==
    LET team == PyOr(Get(p, "team"), Get(p, "player_team"))
        opponent == PyOr(Get(p, "opponent"), Get(p, "opposing_team"))
    IN  IF Truthy(team) /\ Truthy(opponent)
        THEN Str(Format(team) \o <<" ", "v", "s", " ">> \o Format(opponent))
        ELSE IF Truthy(team) THEN team
        ELSE Unknown

_extract_matchup(p) ==
    IF MatchupLoop(p, 1) # <<>> THEN MatchupLoop(p, 1)[1] ELSE TeamFallback(p)

(***************************************************************************)
(* PrizePicksScraper._extract_prop_data                                    *)
(***************************************************************************)
NBA == <<"N", "B", "A">>

\* `a or b or c` over the three aliases of a field.
ResolveAliases(p, a, b, c) == PyOr(PyOr(Get(p, a), Get(p, b)), Get(p, c))

ResolvePlayer(p) == ResolveAliases(p, "player_name", "name", "player")

ResolveStat(p) == ResolveAliases(p, "stat_type", "category", "market")

ResolveLine(p) == ResolveAliases(p, "line", "value", "projection")

ResolveSport(p) == PyOr(Get(p, "sport"), Get(p, "league"))

\* The sport filter with the upper-casing forgotten.
SportRejects_CaseSensitive(sport) ==
    /\ Truthy(sport)
    /\ \/ ~IsStr(sport)
       \/ ~Contains(sport[2], NBA)

\* The sport filter returns None: the test `sport and 'NBA' not in
\* sport.upper()` is true, or sport.upper() raises on a truthy non-string
\* (the except clause then returns None as well).
SportRejects(sport) ==
    /\ Truthy(sport)
    /\ \/ ~IsStr(sport)
       \/ ~Contains(Upper(sport[2]), NBA)

\* `player_name and stat_type and line_value is not None`
FieldsPresent(player_name, stat_type, line_value) ==
    /\ Truthy(player_name)
    /\ Truthy(stat_type)
    /\ line_value # None

\* <<>> is None; <<r>> is the record r.
_extract_prop_data(p, day) ==
    LET player_name == ResolvePlayer(p)
        stat_type == ResolveStat(p)
        line_value == ResolveLine(p)
        matchup == _extract_matchup(p)
        sport == ResolveSport(p)
    IN  IF SportRejects(sport) THEN <<>>
        ELSE IF ~FieldsPresent(player_name, stat_type, line_value) THEN <<>>
        ELSE IF ~CanFloat(line_value) THEN <<>>
        ELSE <<[player |-> player_name,
                stat_type |-> stat_type,
                line_value |-> ToFloat(line_value),
                matchup |-> matchup,
                date |-> Str(IsoFormat(day))]>>

(***************************************************************************)
(* PrizePicksScraper._get_mock_data                                        *)
(***************************************************************************)
MockRecord(player, stat_type, line_value, matchup, day) ==
    [player |-> Str(player),
     stat_type |-> Str(stat_type),
     line_value |-> Num(line_value),
     matchup |-> Str(matchup),
     date |-> Str(IsoFormat(day))]

_get_mock_data(day) ==
    <<MockRecord(<<"L", "e", "B", "r", "o", "n", " ", "J", "a", "m", "e", "s">>,
                 <<"P", "o", "i", "n", "t", "s">>, 255,
                 <<"L", "A", "L", " ", "@", " ", "G", "S", "W">>, day),
      MockRecord(<<"S", "t", "e", "p", "h", "e", "n", " ", "C", "u", "r", "r", "y">>,
                 <<"A", "s", "s", "i", "s", "t", "s">>, 65,
                 <<"G", "S", "W", " ", "v", "s", " ", "L", "A", "L">>, day),
      MockRecord(<<"A", "n", "t", "h", "o", "n", "y", " ", "D", "a", "v", "i", "s">>,
                 <<"R", "e", "b", "o", "u", "n", "d", "s">>, 115,
                 <<"L", "A", "L", " ", "@", " ", "G", "S", "W">>, day),
      MockRecord(<<"D", "r", "a", "y", "m", "o", "n", "d", " ", "G", "r", "e", "e", "n">>,
                 <<"A", "s", "s", "i", "s", "t", "s">>, 75,
                 <<"G", "S", "W", " ", "v", "s", " ", "L", "A", "L">>, day),
      MockRecord(<<"R", "u", "s", "s", "e", "l", "l", " ", "W", "e", "s", "t", "b", "r", "o", "o", "k">>,
                 <<"P", "o", "i", "n", "t", "s">>, 185,
                 <<"L", "A", "L", " ", "@", " ", "G", "S", "W">>, day)>>

(***************************************************************************)
(* PrizePicksScraper._parse_api_response                                   *)
(*                                                                         *)
(* A decoded JSON body is a list <<"list", items>>, a dict                 *)
(* <<"dict", data, projections, results, own>> (the values under its three *)
(* wrapper keys, Absent when it has none, and its own fields read as a     *)
(* projection), or a scalar.  An item of a list is a projection dict       *)
(* <<"proj", p>> or a scalar.                                              *)
(***************************************************************************)
JList(items) == <<"list", items>>
JDict(data, projections, results, own) ==
    <<"dict", data, projections, results, own>>
JProj(p) == <<"proj", p>>

IsJList(v) == v[1] = "list"
IsJDict(v) == v[1] = "dict"
IsJProj(v) == v[1] = "proj"

\* The projections the shape of the body selects.
SelectProjections(data) ==
    IF IsJDict(data)
    THEN IF data[2] # Absent THEN data[2]
         ELSE IF data[3] # Absent THEN data[3]
         ELSE IF data[4] # Absent THEN data[4]
         ELSE JList(<<JProj(data[5])>>)
    ELSE IF IsJList(data) THEN data
    ELSE JList(<<>>)

\* The loop over the projections: items that are not dicts are skipped.
RECURSIVE ParseItems(_, _)
ParseItems(items, day) ==
    IF Len(items) = 0 THEN <<>>
    ELSE (IF IsJProj(Head(items))
          THEN _extract_prop_data(Head(items)[2], day)
          ELSE <<>>) \o ParseItems(Tail(items), day)

\* Iterating a value that is no list gives no record: the loop raises
\* (caught, props is still empty) or runs over keys or characters.
_parse_api_response(data, day) ==
    LET projections == SelectProjections(data)
    IN  IF IsJList(projections) THEN ParseItems(projections[2], day) ELSE <<>>

(***************************************************************************)
(* PrizePicksScraper._scrape_html and _parse_html_element                  *)
(*                                                                         *)
(* A page is the sequence of its elements; of an element the model keeps   *)
(* its tag, whether its class attribute contains one of the terms prop,    *)
(* projection, pick, player, and whether its text contains NBA or one of   *)
(* points, rebounds, assists.                                              *)
(***************************************************************************)
Element(tag, class_hit, text_hit) ==
    [tag |-> tag, class_hit |-> class_hit, text_hit |-> text_hit]

HtmlRecord(day) ==
    [player |-> Str(<<"H", "T", "M", "L", "_", "P", "A", "R", "S", "E", "D", "_", "P", "L", "A", "Y", "E", "R">>),
     stat_type |-> Str(<<"H", "T", "M", "L", "_", "P", "A", "R", "S", "E", "D", "_", "S", "T", "A", "T">>),
     line_value |-> Num(0),
     matchup |-> Str(<<"H", "T", "M", "L", "_", "P", "A", "R", "S", "E", "D", "_", "M", "A", "T", "C", "H", "U", "P">>),
     date |-> Str(IsoFormat(day))]

_parse_html_element(element, day) ==
    IF element.text_hit THEN <<HtmlRecord(day)>> ELSE <<>>

RECURSIVE _scrape_html(_, _)
_scrape_html(html, day) ==
    IF Len(html) = 0 THEN <<>>
    ELSE (IF Head(html).tag \in {"div", "article", "section"} /\ Head(html).class_hit
          THEN _parse_html_element(Head(html), day)
          ELSE <<>>) \o _scrape_html(Tail(html), day)

(***************************************************************************)
(* Responses of the network                                                *)
(*                                                                         *)
(* exc: the exception session.get raised, "none" when a response arrived.  *)
(* json: "ok" when response.json() decodes the body to data, else the      *)
(* exception it raises: requests' own JSONDecodeError (requests >= 2.27,   *)
(* a RequestException and a json.JSONDecodeError), json.JSONDecodeError    *)
(* (older requests), or RecursionError (a body nested too deeply).         *)
(* html: the body read as a page.                                          *)
(***************************************************************************)
Response(exc, status, json, data, html) ==
    [exc |-> exc, status |-> status, json |-> json, data |-> data, html |-> html]

IsRequestException(e) == e \in {"ConnectionError", "RequestsJSONDecodeError"}

IsJSONDecodeError(e) == e \in {"RequestsJSONDecodeError", "JSONDecodeError"}

\* The clause `except Exception` around the probing and the main-page scrape.
OuterCatches(e) ==
    e \in {"ConnectionError", "RequestsJSONDecodeError", "JSONDecodeError",
           "RecursionError"}

\* response.raise_for_status() raises.
RaisesForStatus(status) == status >= 400

\* _scrape_main_page on the response to the request for base_url.
_scrape_main_page(r, day) ==
    IF r.exc # "none" THEN <<>>
    ELSE IF RaisesForStatus(r.status) THEN <<>>
    ELSE _scrape_html(r.html, day)

base_url == "https://www.prizepicks.com"

api_endpoints ==
    <<"https://www.prizepicks.com/api/projections",
      "https://www.prizepicks.com/api/leagues/NBA/projections",
      "https://www.prizepicks.com/projections/NBA">>

(***************************************************************************)
(* Projections handed to the extraction                                    *)
(***************************************************************************)
Fields ==
    {"player_name", "name", "player", "stat_type", "category", "market",
     "line", "value", "projection", "sport", "league",
     "matchup", "game", "opponent", "teams", "fixture",
     "team", "player_team", "opposing_team"}

Blank == [f \in Fields |-> Absent]

MaxSportLen == 3

SportAlphabet == {"N", "B", "A", "b"}

RECURSIVE StringsUpTo(_, _)
StringsUpTo(alphabet, n) ==
    IF n = 0 THEN {<<>>}
    ELSE LET shorter == StringsUpTo(alphabet, n - 1)
         IN  shorter \cup {Append(s, c) : s \in shorter, c \in alphabet}

NHL == <<"N", "H", "L">>
NBARegular == <<"N", "B", "A", " ", "R", "e", "g", "u", "l", "a", "r">>
LeBron == <<"L", "e", "B", "r", "o", "n">>
Points == <<"P", "o", "i", "n", "t", "s">>
Rebounds == <<"R", "e", "b", "o", "u", "n", "d", "s">>
Assists == <<"A", "s", "s", "i", "s", "t", "s">>
LAL == <<"L", "A", "L">>
LALvsGSW == <<"L", "A", "L", " ", "v", "s", ".", " ", "G", "S", "W">>
LALatBOS == <<"L", "A", "L", " ", "@", " ", "B", "O", "S">>
MIN3624 == <<"3", "6", ":", "2", "4">>
MIN3815 == <<"3", "8", ":", "1", "5">>
GSW == <<"G", "S", "W">>
BOS == <<"B", "O", "S">>
MIA == <<"M", "I", "A">>

SportValues ==
    {Absent, None, Num(50), Str(NHL), Str(NBARegular)}
        \cup {Str(s) : s \in StringsUpTo(SportAlphabet, MaxSportLen)}

\* Projections that vary the sport and league fields.
SportInputs ==
    \E sp \in SportValues,
       lg \in {Absent, Str(<<>>), Str(NBA), Str(NHL)},
       pl \in {Absent, Str(LeBron)},
       ln \in {Absent, Num(0), Num(255)} :
        projection = [Blank EXCEPT !["sport"] = sp, !["league"] = lg,
                  !["player_name"] = pl, !["stat_type"] = Str(Points),
                  !["line"] = ln, !["team"] = Str(LAL)]

\* Projections that vary the three aliases of player, stat type and line.
AliasInputs ==
    \E p1 \in {Absent, Str(<<>>), Str(<<"A">>)},
       p2 \in {Absent, Str(<<>>), Str(<<"B">>)},
       p3 \in {Absent, Str(<<"C">>), Num(230)},
       s1 \in {Absent, Str(<<>>), Str(Points)},
       s2 \in {Absent, Str(Rebounds)},
       s3 \in {Absent, Num(0), Str(Assists)},
       l1 \in {Absent, None, Num(0), Num(255), Str(<<"5">>), Str(<<"x">>)},
       l2 \in {Absent, Num(0), Num(65)},
       l3 \in {Absent, Num(0), Num(115)},
       sp \in {Absent, Str(NBA)} :
        projection = [Blank EXCEPT !["player_name"] = p1, !["name"] = p2, !["player"] = p3,
                  !["stat_type"] = s1, !["category"] = s2, !["market"] = s3,
                  !["line"] = l1, !["value"] = l2, !["projection"] = l3,
                  !["sport"] = sp]

\* Nested matchup dicts.
NestedValues ==
    {Obj(h, ht, a, at, FALSE) :
        h \in {Absent, Str(<<>>), Str(GSW)},
        ht \in {Absent, Str(BOS)},
        a \in {Absent, Num(0), Str(LAL)},
        at \in {Absent, Str(MIA)}}
        \cup {Obj(Absent, Absent, Absent, Absent, TRUE)}

HomeAway == Obj(Str(GSW), Absent, Str(LAL), Absent, FALSE)
HomeOnly == Obj(Str(GSW), Absent, Absent, Absent, FALSE)
OtherKeys == Obj(Absent, Absent, Absent, Absent, TRUE)

\* Projections that vary the fields _extract_matchup reads.
MatchupInputs ==
    \E m \in {Absent, None, Str(<<>>), Str(<<"M">>), Num(50)} \cup NestedValues,
       g \in {Absent, Str(<<"G">>), HomeAway, HomeOnly},
       o \in {Absent, Str(<<"O">>), Num(50), OtherKeys, HomeAway},
       t \in {Absent, Str(<<"T">>), HomeOnly},
       f \in {Absent, Str(<<"F">>)},
       tm \in {Absent, Str(<<>>), Str(LAL), Num(70)},
       pt \in {Absent, Str(BOS)},
       ot \in {Absent, Str(MIA)} :
        projection = [Blank EXCEPT !["matchup"] = m, !["game"] = g, !["opponent"] = o,
                  !["teams"] = t, !["fixture"] = f,
                  !["team"] = tm, !["player_team"] = pt,
                  !["opposing_team"] = ot,
                  !["player_name"] = Str(LeBron), !["stat_type"] = Str(Points),
                  !["line"] = Num(255)]

(***************************************************************************)
(* PrizePicksScraper.get_nba_props                                         *)
(***************************************************************************)
MaxItems == 2

MaxElements == 1

LALatGSW == <<"L", "A", "L", " ", "@", " ", "G", "S", "W">>

GoodProp ==
    [Blank EXCEPT !["player_name"] = Str(LeBron), !["stat_type"] = Str(Points),
                  !["line"] = Num(255), !["sport"] = Str(NBA),
                  !["matchup"] = Str(LALatGSW)]

NhlProp == [GoodProp EXCEPT !["sport"] = Str(NHL)]

NoLineProp == [GoodProp EXCEPT !["line"] = Absent]

\* A projection whose player and team are numbers, not strings.
NumberedProp ==
    [Blank EXCEPT !["player_name"] = Num(230), !["stat_type"] = Str(Points),
                  !["value"] = Num(65), !["league"] = Str(NBA),
                  !["team"] = Num(70)]

Items ==
    {JProj(GoodProp), JProj(NhlProp), JProj(NoLineProp), JProj(NumberedProp),
     Num(50)}

RECURSIVE SeqsUpTo(_, _)
SeqsUpTo(S, n) ==
    IF n = 0 THEN {<<>>}
    ELSE LET shorter == SeqsUpTo(S, n - 1)
         IN  shorter \cup {Append(q, x) : q \in shorter, x \in S}

ItemLists == {JList(l) : l \in SeqsUpTo(Items, MaxItems)}

WrapperValues ==
    {Absent, JList(<<JProj(GoodProp)>>), JList(<<JProj(NumberedProp)>>)}

\* Decoded JSON bodies.
DataValues ==
    ItemLists
        \cup {JDict(l, Absent, Absent, Blank) : l \in ItemLists}
        \cup {JDict(Absent, l, Absent, Blank) : l \in ItemLists}
        \cup {JDict(Absent, Absent, l, Blank) : l \in ItemLists}
        \cup {JDict(a, b, c, GoodProp) : a \in WrapperValues,
                                         b \in WrapperValues,
                                         c \in WrapperValues}
        \cup {JDict(None, JList(<<JProj(GoodProp)>>), Absent, Blank),
              JDict(Absent, Absent, Absent, NhlProp),
              JDict(Absent, Absent, Absent, NumberedProp),
              None, Num(50)}

Elements ==
    {Element("div", TRUE, TRUE), Element("div", TRUE, FALSE),
     Element("div", FALSE, TRUE), Element("span", TRUE, TRUE)}

Pages == SeqsUpTo(Elements, MaxElements)

NoResponse(exc) == Response(exc, 0, "none", None, <<>>)

\* What a request to a candidate endpoint can meet.
EndpointResponses ==
    {NoResponse("ConnectionError")}
        \cup {Response("none", st, "ok", JList(<<JProj(GoodProp)>>), <<>>) :
                st \in {204, 404}}
        \cup {Response("none", st, "JSONDecodeError", None, <<>>) :
                st \in {204, 404}}
        \cup {Response("none", 200, "ok", d, <<>>) : d \in DataValues}
        \cup {Response("none", 200, "JSONDecodeError", None, h) : h \in Pages}
        \cup {Response("none", 200, "RequestsJSONDecodeError", None, <<>>),
              Response("none", 200, "RecursionError", None, <<>>)}

\* What the request to the main page can meet.
MainPageResponses ==
    {NoResponse("ConnectionError")}
        \cup {Response("none", st, "JSONDecodeError", None, h) :
                st \in {200, 204, 404}, h \in Pages}

\* One pass of the body of the loop over api_endpoints on response r:
\* "break", "continue" (an except clause continues), "next" (the body ends)
\* or "raise" (an exception leaves the loop).
LoopOutcome_NoBreak(r) ==
    IF r.exc # "none"
    THEN IF IsRequestException(r.exc) THEN "continue" ELSE "raise"
    ELSE IF r.status = 200
         THEN IF r.json = "ok" THEN "next"
              ELSE IF IsRequestException(r.json) THEN "continue"
              ELSE IF IsJSONDecodeError(r.json) THEN "break"
              ELSE "raise"
         ELSE "next"

LoopOutcome(r) ==
    IF r.exc # "none"
    THEN IF IsRequestException(r.exc) THEN "continue" ELSE "raise"
    ELSE IF r.status = 200
         THEN IF r.json = "ok" THEN "break"
              ELSE IF IsRequestException(r.json) THEN "continue"
              ELSE IF IsJSONDecodeError(r.json) THEN "break"
              ELSE "raise"
         ELSE "next"

\* The exception that leaves the loop when LoopOutcome is "raise".
LoopException(r) == IF r.exc # "none" THEN r.exc ELSE r.json

\* The records that pass extends props with.
LoopRecords(r, day) ==
    IF r.exc # "none" \/ r.status # 200 THEN <<>>
    ELSE IF r.json = "ok" THEN _parse_api_response(r.data, day)
    ELSE IF ~IsRequestException(r.json) /\ IsJSONDecodeError(r.json)
         THEN _scrape_html(r.html, day)
         ELSE <<>>

\* After the loop with the main-page scrape forgotten.
AfterLoop_NoMainPage(ps) == "fallback"

\* After the loop: `if not props: props = self._scrape_main_page()`.
AfterLoop(ps) == IF ps = <<>> THEN "main_page" ELSE "fallback"

\* The final fallback forgotten.
FinalProps_NoMock(ps, day) == ps

\* `if not props: props = self._get_mock_data()`.
FinalProps(ps, day) == IF ps = <<>> THEN _get_mock_data(day) ELSE ps

Call(url, r) == [url |-> url, response |-> r]

pvars == <<use_mock, pc, endpoint, props, calls, returned>>

xvars == <<projection, xpc, extracted, matchup_out>>

vars == <<xvars, pvars, dirs, files, saves, lpc, log_in, api_calls, log_out,
    hpc, h_in, h_out, mpc, player_names, multi_mock, fetches, multi_results, today>>

\* What get_nba_props leaves alone.
NotProps == <<xvars, dirs, files, saves, lpc, log_in, api_calls, log_out,
    hpc, h_in, h_out, mpc, player_names, multi_mock, fetches, multi_results, today>>

\* What the extraction harness leaves alone.
NotExtract == <<pvars, dirs, files, saves, lpc, log_in, api_calls, log_out,
    hpc, h_in, h_out, mpc, player_names, multi_mock, fetches, multi_results, today>>

\* What save_to_csv leaves alone.
NotCsv == <<xvars, pvars, lpc, log_in, api_calls, log_out,
    hpc, h_in, h_out, mpc, player_names, multi_mock, fetches, multi_results, today>>

\* What get_player_game_logs leaves alone.
NotLogs ==
    <<xvars, pvars, dirs, files, saves,
      hpc, h_in, h_out, mpc, player_names, multi_mock, fetches, multi_results, today>>

\* What the helper calls leave alone.
NotHelpers ==
    <<xvars, pvars, dirs, files, saves, lpc, log_in, api_calls, log_out,
      mpc, player_names, multi_mock, fetches, multi_results, today>>

\* What get_multiple_players_game_logs leaves alone.
NotMulti ==
    <<xvars, pvars, dirs, files, saves, lpc, log_in, api_calls, log_out,
      hpc, h_in, h_out, today>>

PInit ==
    /\ use_mock \in BOOLEAN
    /\ pc = "start"
    /\ endpoint = 1
    /\ props = <<>>
    /\ calls = <<>>
    /\ returned = <<>>

PIdle ==
    /\ use_mock = FALSE
    /\ pc = "idle"
    /\ endpoint = 1
    /\ props = <<>>
    /\ calls = <<>>
    /\ returned = <<>>

\* Entry: mock mode returns the mock data at once.
Start ==
    /\ pc = "start"
    /\ IF use_mock
       THEN /\ returned' = _get_mock_data(today)
            /\ pc' = "done"
       ELSE /\ returned' = returned
            /\ pc' = "probe"
    /\ UNCHANGED <<use_mock, endpoint, props, calls>>
    /\ UNCHANGED NotProps

\* One pass of the loop: the request to api_endpoints[endpoint] and what the
\* body does with the response.
TryEndpoint ==
    /\ pc = "probe"
    /\ \E r \in EndpointResponses :
        /\ calls' = Append(calls, Call(api_endpoints[endpoint], r))
        /\ props' = props \o LoopRecords(r, today)
        /\ endpoint' = endpoint + 1
        /\ pc' = CASE LoopOutcome(r) = "break" -> AfterLoop(props')
                   [] LoopOutcome(r) = "raise" ->
                        IF OuterCatches(LoopException(r))
                        THEN "fallback" ELSE "raised"
                   [] OTHER ->
                        IF endpoint = Len(api_endpoints)
                        THEN AfterLoop(props') ELSE "probe"
    /\ UNCHANGED <<use_mock, returned>>
    /\ UNCHANGED NotProps

\* props = self._scrape_main_page()
ScrapeMainPage ==
    /\ pc = "main_page"
    /\ \E r \in MainPageResponses :
        /\ calls' = Append(calls, Call(base_url, r))
        /\ props' = _scrape_main_page(r, today)
    /\ pc' = "fallback"
    /\ UNCHANGED <<use_mock, endpoint, returned>>
    /\ UNCHANGED NotProps

\* The final fallback and the return.
Return ==
    /\ pc = "fallback"
    /\ props' = FinalProps(props, today)
    /\ returned' = props'
    /\ pc' = "done"
    /\ UNCHANGED <<use_mock, endpoint, calls>>
    /\ UNCHANGED NotProps

PNext == Start \/ TryEndpoint \/ ScrapeMainPage \/ Return

(***************************************************************************)
(* PrizePicksScraper.save_to_csv                                           *)
(*                                                                         *)
(* A props dict is the sequence of its <<key, value>> pairs, in the dict's *)
(* own order.  A table is its column names in order and its rows, each a   *)
(* function from the column names to cells; NaN marks a missing cell.      *)
(***************************************************************************)
MaxSaves == 3

MaxDay == 2

NaN == <<"nan">>

DictKeys(d) == [i \in 1..Len(d) |-> d[i][1]]

DictHas(d, k) == \E i \in 1..Len(d) : d[i][1] = k

DictGet(d, k) == d[CHOOSE i \in 1..Len(d) : d[i][1] = k][2]

InSeq(x, q) == \E i \in 1..Len(q) : q[i] = x

\* The keys of the dicts in order of first appearance.
RECURSIVE ColumnsOf(_, _)
ColumnsOf(ds, seen) ==
    IF Len(ds) = 0 THEN seen
    ELSE LET keys == DictKeys(Head(ds))
             fresh == SelectSeq(keys, LAMBDA k : ~InSeq(k, seen))
         IN  ColumnsOf(Tail(ds), seen \o fresh)

\* pd.DataFrame(list of dicts): one row per dict.
DataFrame(ds) ==
    LET cols == ColumnsOf(ds, <<>>)
    IN  [columns |-> cols,
         rows |-> [i \in 1..Len(ds) |->
                    [c \in {cols[j] : j \in 1..Len(cols)} |->
                        IF DictHas(ds[i], c) THEN DictGet(ds[i], c) ELSE NaN]]]

\* reindex left out: the frame keeps the columns the dicts gave it.
Reindex_Skipped(df, columns) == df

\* df.reindex(columns=columns)
Reindex(df, columns) ==
    [columns |-> columns,
     rows |-> [i \in 1..Len(df.rows) |->
                [c \in {columns[j] : j \in 1..Len(columns)} |->
                    IF InSeq(c, df.columns) THEN df.rows[i][c] ELSE NaN]]]

\* The text df.to_csv(index=False) writes: the header and one line per row.
ToCsv(df) ==
    [header |-> df.columns,
     lines |-> [i \in 1..Len(df.rows) |->
                 [j \in 1..Len(df.columns) |-> df.rows[i][df.columns[j]]]]]

csv_columns == <<"player", "stat_type", "line_value", "matchup", "date">>

\* f"nba_props_{today}.csv"
CsvFilename(day) ==
    <<"n", "b", "a", "_", "p", "r", "o", "p", "s", "_">>
        \o IsoFormat(day) \o <<".", "c", "s", "v">>

\* os.path.join of a directory name and a file name.
PathJoin(dir, name) ==
    IF Len(dir) = 0 \/ dir[Len(dir)] = "/" THEN dir \o name
    ELSE dir \o <<"/">> \o name

\* The file written with the date left out of its name.
CsvPath_NoDate(output_dir, day) ==
    PathJoin(output_dir, <<"n", "b", "a", "_", "p", "r", "o", "p", "s", ".", "c", "s", "v">>)

CsvPath(output_dir, day) == PathJoin(output_dir, CsvFilename(day))

\* open(path, "w") and write: the content replaces what the file held.
WriteFile(fs, path, content) ==
    [q \in DOMAIN fs \cup {path} |-> IF q = path THEN content ELSE fs[q]]

DataDir == <<"d", "a", "t", "a">>

OutDir == <<"o", "u", "t">>

OutputDirs == {DataDir, OutDir}

StdDict ==
    <<<<"player", Str(LeBron)>>, <<"stat_type", Str(Points)>>,
      <<"line_value", Num(255)>>, <<"matchup", Str(LALatGSW)>>,
      <<"date", Str(IsoFormat(1))>>>>

\* The keys in another order, one missing and one more.
OddDict ==
    <<<<"date", Str(IsoFormat(1))>>, <<"odds", Num(20)>>,
      <<"player", Str(<<"A">>)>>, <<"line_value", Num(65)>>,
      <<"stat_type", Str(Assists)>>>>

\* The lists handed to save_to_csv: none, one or two records.
PropLists == {<<>>, <<StdDict>>, <<OddDict>>, <<StdDict, OddDict>>}

Junk == [header |-> <<"x">>, lines |-> <<<<Num(10)>>, <<Num(20)>>>>]

cvars == <<dirs, files, saves>>

CIdle ==
    /\ dirs = {}
    /\ files = <<>>
    /\ saves = <<>>

\* The directory may exist or not, and the day's file may hold something.
CInit ==
    /\ saves = <<>>
    /\ \/ dirs = {} /\ files = <<>>
       \/ dirs = {DataDir} /\ files = <<>>
       \/ dirs = {DataDir} /\ files = WriteFile(<<>>, CsvPath(DataDir, 1), Junk)

save_to_csv ==
    /\ Len(saves) < MaxSaves
    /\ \E ps \in PropLists, output_dir \in OutputDirs :
        IF ps = <<>>
        THEN /\ saves' = Append(saves, [props |-> ps, output_dir |-> output_dir,
                                        day |-> today, path |-> <<>>])
             /\ UNCHANGED <<dirs, files>>
        ELSE LET filepath == CsvPath(output_dir, today)
                 df == Reindex(DataFrame(ps), csv_columns)
             IN  /\ dirs' = dirs \cup {output_dir}
                 /\ files' = WriteFile(files, filepath, ToCsv(df))
                 /\ saves' = Append(saves, [props |-> ps, output_dir |-> output_dir,
                                            day |-> today, path |-> filepath])
    /\ UNCHANGED NotCsv

\* Midnight.
DayPasses ==
    /\ today < MaxDay
    /\ today' = today + 1
    /\ UNCHANGED <<xvars, pvars, cvars, lpc, log_in, api_calls, log_out,
                   hpc, h_in, h_out, mpc, player_names, multi_mock, fetches, multi_results>>

(***************************************************************************)
(* fetch_nba_stats: _parse_minutes and _extract_opponent                   *)
(***************************************************************************)
\* The position of the first occurrence of sep in s, 0 when there is none.
Find(s, sep) ==
    IF Contains(s, sep)
    THEN CHOOSE i \in 1..Len(s) :
            /\ i + Len(sep) - 1 <= Len(s)
            /\ SubSeq(s, i, i + Len(sep) - 1) = sep
            /\ \A j \in 1..(i - 1) : SubSeq(s, j, j + Len(sep) - 1) # sep
    ELSE 0

\* str.split(sep): the parts between the occurrences of sep.
RECURSIVE Split(_, _)
Split(s, sep) ==
    IF Find(s, sep) = 0 THEN <<s>>
    ELSE <<SubSeq(s, 1, Find(s, sep) - 1)>>
            \o Split(SubSeq(s, Find(s, sep) + Len(sep), Len(s)), sep)

\* str(v) of a cell.
PyStr(v) ==
    CASE v[1] = "str" -> v[2]
      [] v[1] = "num" -> NumStr(v[2])
      [] v[1] = "nan" -> <<"n", "a", "n">>
      [] OTHER -> <<"N", "o", "n", "e">>

\* round(mins + secs / 60.0, 1) in tenths.  secs / 6 is exact but for a
\* remainder of 3, a tie in decimal, which falls as the double nearest to
\* mins + secs / 60.0 does.  TieSecondsUp[mins + 1] holds the tie seconds
\* that round() takes up for that many minutes, as the double arithmetic
\* gives them for 0 to 60 minutes; 15 seconds (.25, exact) always goes to
\* the even tenth below and 45 seconds (.75, exact) to the even tenth above.
TieSecondsUp ==
    <<{3, 27, 33, 39, 45}, {3, 21, 33, 45, 51}, {21, 27, 45, 51, 57},
      {21, 27, 45, 51, 57}, {9, 27, 39, 45, 57}, {9, 27, 39, 45, 57},
      {9, 27, 39, 45, 57}, {9, 27, 39, 45, 57}, {3, 9, 33, 39, 45},
      {3, 9, 33, 39, 45}, {3, 9, 33, 39, 45}, {3, 9, 33, 39, 45},
      {3, 9, 33, 39, 45}, {3, 9, 33, 39, 45}, {3, 9, 33, 39, 45},
      {3, 9, 33, 39, 45}, {3, 21, 33, 45, 51}, {3, 21, 33, 45, 51},
      {3, 21, 33, 45, 51}, {3, 21, 33, 45, 51}, {3, 21, 33, 45, 51},
      {3, 21, 33, 45, 51}, {3, 21, 33, 45, 51}, {3, 21, 33, 45, 51},
      {3, 21, 33, 45, 51}, {3, 21, 33, 45, 51}, {3, 21, 33, 45, 51},
      {3, 21, 33, 45, 51}, {3, 21, 33, 45, 51}, {3, 21, 33, 45, 51},
      {3, 21, 33, 45, 51}, {3, 21, 33, 45, 51}, {21, 27, 45, 51, 57},
      {21, 27, 45, 51, 57}, {21, 27, 45, 51, 57}, {21, 27, 45, 51, 57},
      {21, 27, 45, 51, 57}, {21, 27, 45, 51, 57}, {21, 27, 45, 51, 57},
      {21, 27, 45, 51, 57}, {21, 27, 45, 51, 57}, {21, 27, 45, 51, 57},
      {21, 27, 45, 51, 57}, {21, 27, 45, 51, 57}, {21, 27, 45, 51, 57},
      {21, 27, 45, 51, 57}, {21, 27, 45, 51, 57}, {21, 27, 45, 51, 57},
      {21, 27, 45, 51, 57}, {21, 27, 45, 51, 57}, {21, 27, 45, 51, 57},
      {21, 27, 45, 51, 57}, {21, 27, 45, 51, 57}, {21, 27, 45, 51, 57},
      {21, 27, 45, 51, 57}, {21, 27, 45, 51, 57}, {21, 27, 45, 51, 57},
      {21, 27, 45, 51, 57}, {21, 27, 45, 51, 57}, {21, 27, 45, 51, 57},
      {21, 27, 45, 51, 57}>>

\* The seconds cut to the tenth below instead of rounded.
RoundMinutes_Truncated(mins, secs) == 10 * mins + secs \div 6

RoundMinutes(mins, secs) ==
    LET q == secs \div 6
        r == secs % 6
    IN  IF r < 3 THEN 10 * mins + q
        ELSE IF r > 3 THEN 10 * mins + q + 1
        ELSE IF mins < Len(TieSecondsUp)
             THEN IF secs \in TieSecondsUp[mins + 1]
                  THEN 10 * mins + q + 1 ELSE 10 * mins + q
        ELSE IF q % 2 = 0 THEN 10 * mins + q ELSE 10 * mins + q + 1

\* The outcome of _parse_minutes: <<"ok", tenths>> or <<"raise", class>>.
_parse_minutes(minutes_str) ==
    LET text == PyStr(minutes_str)
    IN  IF Contains(text, <<":">>)
        THEN LET parts == Split(text, <<":">>)
             IN  IF CanInt(parts[1]) /\ CanInt(parts[2])
                 THEN <<"ok", Num(RoundMinutes(DigitsVal(parts[1]), DigitsVal(parts[2])))>>
                 ELSE <<"ok", Num(0)>>
        ELSE IF IsNum(minutes_str) THEN <<"ok", minutes_str>>
        ELSE IF minutes_str[1] = "nan" THEN <<"ok", minutes_str>>
        ELSE IF IsStr(minutes_str)
             THEN IF CanFloatStr(text) THEN <<"ok", Num(FloatStr(text))>>
                  ELSE <<"ok", Num(0)>>
        ELSE <<"raise", "TypeError">>

VsSep == <<" ", "v", "s", ".", " ">>

AtSep == <<" ", "@", " ">>

\* The token before the separator returned instead of the one after it.
_extract_opponent_FirstToken(matchup) ==
    IF ~IsStr(matchup) THEN matchup
    ELSE IF Contains(matchup[2], VsSep) THEN Str(Split(matchup[2], VsSep)[1])
    ELSE IF Contains(matchup[2], AtSep) THEN Str(Split(matchup[2], AtSep)[1])
    ELSE matchup

\* A matchup that is no string makes the `in` test raise; the except clause
\* returns it unchanged.
_extract_opponent(matchup) ==
    IF ~IsStr(matchup) THEN matchup
    ELSE IF Contains(matchup[2], VsSep) THEN Str(Split(matchup[2], VsSep)[2])
    ELSE IF Contains(matchup[2], AtSep) THEN Str(Split(matchup[2], AtSep)[2])
    ELSE matchup

(***************************************************************************)
(* fetch_nba_stats: get_player_game_logs                                   *)
(*                                                                         *)
(* A frame is its column names in order and its rows, each a function from *)
(* the column names to cells.  has_index tells a frame that has got its    *)
(* row index from one that is still empty of rows and columns' values.     *)
(***************************************************************************)
MaxRows == 2

source_columns == <<"GAME_DATE", "MATCHUP", "PTS", "AST", "REB", "MIN">>

canonical_columns ==
    <<"date", "opponent", "points", "assists", "rebounds", "minutes">>

SeqSet(q) == {q[i] : i \in 1..Len(q)}

Frame(columns, rows) == [columns |-> columns, rows |-> rows]

SourceRow(game_date, matchup, pts, ast, reb, min) ==
    [GAME_DATE |-> game_date, MATCHUP |-> matchup, PTS |-> pts,
     AST |-> ast, REB |-> reb, MIN |-> min]

_get_mock_game_logs ==
    <<SourceRow(Str(<<"2", "0", "2", "4", "-", "0", "1", "-", "1", "5">>), Str(<<"L", "A", "L", " ", "v", "s", ".", " ", "G", "S", "W">>),
                Num(280), Num(70), Num(80), Str(<<"3", "6", ":", "2", "4">>)),
      SourceRow(Str(<<"2", "0", "2", "4", "-", "0", "1", "-", "1", "2">>), Str(<<"L", "A", "L", " ", "@", " ", "B", "O", "S">>),
                Num(250), Num(90), Num(60), Str(<<"3", "8", ":", "1", "5">>)),
      SourceRow(Str(<<"2", "0", "2", "4", "-", "0", "1", "-", "1", "0">>), Str(<<"L", "A", "L", " ", "v", "s", ".", " ", "M", "I", "A">>),
                Num(320), Num(60), Num(110), Str(<<"4", "0", ":", "0", "2">>)),
      SourceRow(Str(<<"2", "0", "2", "4", "-", "0", "1", "-", "0", "8">>), Str(<<"L", "A", "L", " ", "@", " ", "P", "H", "X">>),
                Num(220), Num(80), Num(70), Str(<<"3", "5", ":", "3", "0">>)),
      SourceRow(Str(<<"2", "0", "2", "4", "-", "0", "1", "-", "0", "5">>), Str(<<"L", "A", "L", " ", "v", "s", ".", " ", "D", "E", "N">>),
                Num(300), Num(50), Num(90), Str(<<"3", "7", ":", "4", "5">>))>>

\* The empty frame without its columns.
EmptyGameLogs_NoColumns == Frame(<<>>, <<>>)

\* pd.DataFrame(columns=['date', 'opponent', 'points', ...])
EmptyGameLogs == Frame(canonical_columns, <<>>)

\* pd.to_datetime(...).dt.strftime('%Y-%m-%d') on one cell: the ISO date,
\* <<>> when the cell does not parse as a date.
JanDate(d) ==
    <<"J", "A", "N", " ">> \o (IF d < 10 THEN <<"0">> ELSE <<>>) \o IntStr(d)
        \o <<",", " ", "2", "0", "2", "4">>

DaysOfMonth == 1..31

NormalizeDate(cell) ==
    IF ~IsStr(cell) THEN <<>>
    ELSE IF \E d \in DaysOfMonth : cell[2] = IsoFormat(d) THEN <<cell>>
    ELSE IF \E d \in DaysOfMonth : cell[2] = JanDate(d)
         THEN <<Str(IsoFormat(CHOOSE d \in DaysOfMonth : cell[2] = JanDate(d)))>>
    ELSE <<>>

\* Series.astype(int) on one cell: the integer, <<>> when the cast raises.
AsInt(cell) == IF IsNum(cell) THEN <<Num(10 * (cell[2] \div 10))>> ELSE <<>>

HasColumn(df, c) == c \in SeqSet(df.columns)

\* The column of the output that one source column gives: <<"series", cells>>,
\* <<"scalar", cell>> or <<"raise">>.
DateColumn(df, day) ==
    IF HasColumn(df, "GAME_DATE")
    THEN IF \A i \in 1..Len(df.rows) : NormalizeDate(df.rows[i]["GAME_DATE"]) # <<>>
         THEN <<"series", [i \in 1..Len(df.rows) |->
                            NormalizeDate(df.rows[i]["GAME_DATE"])[1]]>>
         ELSE <<"raise">>
    ELSE <<"scalar", Str(IsoFormat(day))>>

OpponentColumn(df) ==
    IF HasColumn(df, "MATCHUP")
    THEN <<"series", [i \in 1..Len(df.rows) |->
                       _extract_opponent(df.rows[i]["MATCHUP"])]>>
    ELSE <<"scalar", Unknown>>

\* df.get(name, 0).astype(int): the default 0 is an int, which has no astype.
StatColumn(df, name) ==
    IF HasColumn(df, name)
    THEN IF \A i \in 1..Len(df.rows) : AsInt(df.rows[i][name]) # <<>>
         THEN <<"series", [i \in 1..Len(df.rows) |-> AsInt(df.rows[i][name])[1]]>>
         ELSE <<"raise">>
    ELSE <<"raise">>

MinutesColumn(df) ==
    IF HasColumn(df, "MIN")
    THEN IF \A i \in 1..Len(df.rows) : _parse_minutes(df.rows[i]["MIN"])[1] = "ok"
         THEN <<"series", [i \in 1..Len(df.rows) |->
                            _parse_minutes(df.rows[i]["MIN"])[2]]>>
         ELSE <<"raise">>
    ELSE <<"scalar", Num(0)>>

\* output_df[name] = value.  A scalar fills the rows the frame has (none,
\* while it has no index); a series gives a frame without index its index,
\* the columns it already had being filled with NaN.
Assign(out, name, value) ==
    LET n == IF value[1] = "series" /\ ~out.has_index
             THEN Len(value[2]) ELSE Len(out.rows)
        old(i, c) == IF i <= Len(out.rows) THEN out.rows[i][c] ELSE NaN
        new(i) == IF value[1] = "series" THEN value[2][i] ELSE value[2]
    IN  [columns |-> Append(out.columns, name),
         has_index |-> out.has_index \/ (value[1] = "series" /\ Len(value[2]) > 0),
         rows |-> [i \in 1..n |->
                    [c \in SeqSet(out.columns) \cup {name} |->
                        IF c = name THEN new(i) ELSE old(i, c)]]]

\* Character order of the characters of an ISO date.
CharRank(c) == IF c = "-" THEN 0 ELSE DigitVal(c) + 1

RECURSIVE StrLess(_, _)
StrLess(a, b) ==
    IF Len(b) = 0 THEN FALSE
    ELSE IF Len(a) = 0 THEN TRUE
    ELSE IF Head(a) # Head(b) THEN CharRank(Head(a)) < CharRank(Head(b))
    ELSE StrLess(Tail(a), Tail(b))

\* The sort key order of sort_values('date', ascending=False): NaN last.
DateBefore(x, y) ==
    IF x = NaN THEN FALSE
    ELSE IF y = NaN THEN TRUE
    ELSE StrLess(y[2], x[2])

RECURSIVE InsertRow(_, _)
InsertRow(sorted, row) ==
    IF Len(sorted) = 0 THEN <<row>>
    ELSE IF DateBefore(row["date"], Head(sorted)["date"])
         THEN <<row>> \o sorted
         ELSE <<Head(sorted)>> \o InsertRow(Tail(sorted), row)

\* sort_values('date', ascending=False).reset_index(drop=True); rows with
\* equal dates keep their order.
RECURSIVE SortByDateDesc(_)
SortByDateDesc(rows) ==
    IF Len(rows) = 0 THEN <<>>
    ELSE InsertRow(SortByDateDesc(SubSeq(rows, 1, Len(rows) - 1)), rows[Len(rows)])

\* The try block that processes and formats the frame, and its except clause.
ProcessGameLogs(df, day) ==
    LET date == DateColumn(df, day)
        opponent == OpponentColumn(df)
        points == StatColumn(df, "PTS")
        assists == StatColumn(df, "AST")
        rebounds == StatColumn(df, "REB")
        minutes == MinutesColumn(df)
    IN  IF \E col \in {date, points, assists, rebounds, minutes} : col[1] = "raise"
        THEN EmptyGameLogs
        ELSE LET o1 == Assign([columns |-> <<>>, has_index |-> FALSE, rows |-> <<>>],
                              "date", date)
                 o2 == Assign(o1, "opponent", opponent)
                 o3 == Assign(o2, "points", points)
                 o4 == Assign(o3, "assists", assists)
                 o5 == Assign(o4, "rebounds", rebounds)
                 o6 == Assign(o5, "minutes", minutes)
             IN  Frame(o6.columns, SortByDateDesc(o6.rows))

\* The inputs of one call: the mock flag, whether the name lookup finds the
\* player, and what the game-log request meets ("raise", or the frame).
LogInput(mock, found, remote) ==
    [use_mock |-> mock, found |-> found, remote |-> remote]

\* The nba_api calls a call makes.
ApiCalls(in) ==
    IF in.use_mock THEN <<>>
    ELSE IF ~in.found THEN <<"find_players_by_full_name">>
    ELSE <<"find_players_by_full_name", "PlayerGameLog">>

\* The lookup made, and its failure raised, in mock mode as well.
RaisesNotFound_EvenInMock(in) == ~in.found

\* The call raises ValueError: not in mock mode and the player is not found.
RaisesNotFound(in) == ~in.use_mock /\ ~in.found

\* The call with the fallback to the mock data left out: a failed request
\* gives the empty table.
GameLogsOf_NoFallback(in, day) ==
    IF in.use_mock THEN ProcessGameLogs(Frame(source_columns, _get_mock_game_logs), day)
    ELSE IF in.remote = <<"raise">> THEN EmptyGameLogs
    ELSE IF Len(in.remote[2].rows) = 0 THEN EmptyGameLogs
    ELSE ProcessGameLogs(in.remote[2], day)

\* What the call returns when it does not raise.
GameLogsOf(in, day) ==
    IF in.use_mock THEN ProcessGameLogs(Frame(source_columns, _get_mock_game_logs), day)
    ELSE IF in.remote = <<"raise">>
         THEN ProcessGameLogs(Frame(source_columns, _get_mock_game_logs), day)
    ELSE IF Len(in.remote[2].rows) = 0 THEN EmptyGameLogs
    ELSE ProcessGameLogs(in.remote[2], day)

\* Frames the game-log request can answer with.
GoodRows ==
    {SourceRow(Num(d), Str(m), Num(280), Num(70), Num(80), Str(MIN3624)) :
        d \in {12, 15}, m \in {LALvsGSW, LALatBOS}}

GoodRow == SourceRow(Num(15), Str(LALvsGSW), Num(280), Num(70), Num(80), Str(MIN3624))

\* Rows with one cell that is missing or malformed.
OddRows ==
    {[GoodRow EXCEPT !["GAME_DATE"] = Str(<<"x">>)],
     [GoodRow EXCEPT !["PTS"] = None],
     [GoodRow EXCEPT !["MIN"] = Str(<<"a", "b", "c">>)],
     [GoodRow EXCEPT !["MIN"] = None],
     [GoodRow EXCEPT !["MIN"] = Str(MIN3815), !["GAME_DATE"] = Num(8)]}

ColumnChoices ==
    {source_columns,
     <<"MATCHUP", "PTS", "AST", "REB", "MIN">>,
     <<"GAME_DATE", "PTS", "AST", "REB", "MIN">>,
     <<"GAME_DATE", "MATCHUP", "AST", "REB", "MIN">>,
     <<"GAME_DATE", "MATCHUP", "PTS", "REB", "MIN">>,
     <<"GAME_DATE", "MATCHUP", "PTS", "AST", "MIN">>,
     <<"GAME_DATE", "MATCHUP", "PTS", "AST", "REB">>,
     <<"PTS", "AST", "REB">>}

\* The date cell of day d as the source spells it.
DateCell(cell, fmt) ==
    IF ~IsNum(cell) THEN cell
    ELSE IF fmt = "iso" THEN Str(IsoFormat(cell[2]))
    ELSE Str(JanDate(cell[2]))

\* The frame with these columns of these rows, dates spelled as fmt.
SourceFrame(columns, rows, fmt) ==
    Frame(columns,
          [i \in 1..Len(rows) |->
            [c \in SeqSet(columns) |->
                IF c = "GAME_DATE" THEN DateCell(rows[i][c], fmt) ELSE rows[i][c]]])

lvars == <<lpc, log_in, api_calls, log_out>>

NoInput == LogInput(TRUE, TRUE, <<"raise">>)

LIdle ==
    /\ lpc = "idle"
    /\ log_in = NoInput
    /\ api_calls = <<>>
    /\ log_out = EmptyGameLogs

LInit ==
    /\ lpc = "ready"
    /\ log_in = NoInput
    /\ api_calls = <<>>
    /\ log_out = EmptyGameLogs

get_player_game_logs ==
    /\ lpc = "ready"
    /\ \E mock \in BOOLEAN, found \in BOOLEAN,
          remote \in {<<"raise">>}
                \cup {<<"frame", SourceFrame(cols, rows, fmt)>> :
                        cols \in ColumnChoices,
                        rows \in SeqsUpTo(GoodRows \cup OddRows, MaxRows),
                        fmt \in {"iso", "jan"}} :
        LET in == LogInput(mock, found, remote)
        IN  /\ log_in' = in
            /\ api_calls' = ApiCalls(in)
            /\ IF RaisesNotFound(in)
               THEN /\ lpc' = "raised"
                    /\ log_out' = log_out
               ELSE /\ lpc' = "returned"
                    /\ log_out' = GameLogsOf(in, today)
    /\ UNCHANGED NotLogs

(***************************************************************************)
(* _parse_minutes and _extract_opponent on their own: one call on one      *)
(* value                                                                   *)
(***************************************************************************)
MaxMins == 48

SecondValues == 0..59

\* "M:SS" as the source writes it: the seconds on two digits.
MinSec(m, sec) ==
    IntStr(m) \o <<":">> \o (IF sec < 10 THEN <<"0">> ELSE <<>>) \o IntStr(sec)

MinSecTable == [m \in 0..MaxMins, sec \in SecondValues |-> MinSec(m, sec)]

\* n.d
Decimal(n, d) == IntStr(n) \o <<".">> \o IntStr(d)

\* Minutes values that are no "M:SS" and no number.
MalformedMinutes ==
    {Str(<<"a", "b", "c">>), Str(<<>>), Str(<<"3", "6", ":">>),
     Str(<<":", "2", "4">>), Str(<<":">>), Str(<<"a", ":", "b">>),
     Str(<<"3", "6", ":", "2", "x">>), None}

MinutesInputs ==
    {Str(MinSecTable[m, sec]) : m \in 0..MaxMins, sec \in SecondValues}
        \cup {Str(IntStr(m)) : m \in 0..MaxMins}
        \cup {Str(Decimal(m, d)) : m \in 0..MaxMins, d \in {0, 5}}
        \cup {Str(<<"5", ":", "7">>), Str(<<"1", ":", "0", "2", ":", "0", "3">>),
              Num(365), NaN}
        \cup MalformedMinutes

Teams == {<<>>, LAL, GSW, BOS}

\* Matchup strings with no, one or two separators.
OpponentInputs ==
    {Str(a) : a \in Teams}
        \cup {Str(a \o s1 \o b) : a \in Teams, b \in Teams, s1 \in {VsSep, AtSep}}
        \cup {Str(a \o s1 \o b \o s2 \o c) :
                a \in Teams, b \in Teams, c \in Teams,
                s1 \in {VsSep, AtSep}, s2 \in {VsSep, AtSep}}
        \cup {Str(<<"L", "A", "L", " ", "v", "s", " ", "G", "S", "W">>),
              Str(<<"L", "A", "L", "@", "B", "O", "S">>), None, Num(50)}

hvars == <<hpc, h_in, h_out>>

HIdle ==
    /\ hpc = "idle"
    /\ h_in = None
    /\ h_out = None

HInit ==
    /\ hpc = "input"
    /\ h_in \in MinutesInputs \cup OpponentInputs
    /\ h_out = None

CallParseMinutes ==
    /\ hpc = "input"
    /\ hpc' = "minutes"
    /\ h_out' = _parse_minutes(h_in)
    /\ UNCHANGED h_in
    /\ UNCHANGED NotHelpers

CallExtractOpponent ==
    /\ hpc = "input"
    /\ hpc' = "opponent"
    /\ h_out' = _extract_opponent(h_in)
    /\ UNCHANGED h_in
    /\ UNCHANGED NotHelpers

HelpersNext == CallParseMinutes \/ CallExtractOpponent

(***************************************************************************)
(* get_multiple_players_game_logs                                          *)
(***************************************************************************)
mvars == <<mpc, player_names, multi_mock, fetches, multi_results>>

MIdle ==
    /\ mpc = "idle"
    /\ player_names = <<>>
    /\ multi_mock = FALSE
    /\ fetches = <<>>
    /\ multi_results = <<>>

MaxPlayers == 2

PlayerNames == {"LeBron James", "Stephen Curry"}

\* What the game-log request of one pass can meet.
MultiRemotes ==
    {<<"raise">>,
     <<"frame", Frame(source_columns, <<>>)>>,
     <<"frame", SourceFrame(source_columns, <<GoodRow>>, "iso")>>,
     <<"frame", SourceFrame(<<"GAME_DATE", "MATCHUP", "AST", "REB", "MIN">>,
                            <<GoodRow>>, "iso")>>,
     <<"frame", SourceFrame(source_columns,
                            <<GoodRow, [GoodRow EXCEPT !["MIN"] = None]>>, "jan")>>}

\* The try block of one pass without its except clause: the error of
\* get_player_game_logs leaves the loop.
FetchOne_NoExcept(in, day) ==
    IF RaisesNotFound(in) THEN <<"raise">> ELSE <<"ok", GameLogsOf(in, day)>>

\* One pass of the loop body: the table get_player_game_logs returns, or the
\* empty table of the except clause when it raises.  <<"ok", table>>, or
\* <<"raise">> for an error that leaves the loop.
FetchOne(in, day) ==
    IF RaisesNotFound(in) THEN <<"ok", EmptyGameLogs>>
    ELSE <<"ok", GameLogsOf(in, day)>>

\* results[name] = df
SetItem(d, name, df) ==
    [q \in DOMAIN d \cup {name} |-> IF q = name THEN df ELSE d[q]]

MInit ==
    /\ mpc = "loop"
    /\ player_names \in SeqsUpTo(PlayerNames, MaxPlayers)
    /\ multi_mock \in BOOLEAN
    /\ fetches = <<>>
    /\ multi_results = <<>>

\* One pass of the loop over player_names.
FetchPlayer ==
    /\ mpc = "loop"
    /\ Len(fetches) < Len(player_names)
    /\ \E found \in BOOLEAN, remote \in MultiRemotes :
        LET player_name == player_names[Len(fetches) + 1]
            in == LogInput(multi_mock, found, remote)
            got == FetchOne(in, today)
        IN  /\ fetches' = Append(fetches, [player_name |-> player_name, in |-> in])
            /\ IF got[1] = "raise"
               THEN /\ mpc' = "raised"
                    /\ UNCHANGED multi_results
               ELSE /\ mpc' = mpc
                    /\ multi_results' = SetItem(multi_results, player_name, got[2])
    /\ UNCHANGED <<player_names, multi_mock>>
    /\ UNCHANGED NotMulti

\* The loop is over: return results.
ReturnResults ==
    /\ mpc = "loop"
    /\ Len(fetches) = Len(player_names)
    /\ mpc' = "done"
    /\ UNCHANGED <<player_names, multi_mock, fetches, multi_results>>
    /\ UNCHANGED NotMulti

MultiNext == FetchPlayer \/ ReturnResults

(***************************************************************************)
(* The extraction on its own: one call on one projection                   *)
(***************************************************************************)
XIdle ==
    /\ projection = Blank
    /\ xpc = "idle"
    /\ extracted = <<>>
    /\ matchup_out = None

XInit ==
    /\ SportInputs \/ AliasInputs \/ MatchupInputs
    /\ xpc = "input"
    /\ extracted = <<>>
    /\ matchup_out = None
    /\ today = 1
    /\ PIdle
    /\ CIdle
    /\ LIdle
    /\ HIdle
    /\ MIdle

CallExtractPropData ==
    /\ xpc = "input"
    /\ xpc' = "prop"
    /\ extracted' = _extract_prop_data(projection, today)
    /\ UNCHANGED <<projection, matchup_out>>
    /\ UNCHANGED NotExtract

CallExtractMatchup ==
    /\ xpc = "input"
    /\ xpc' = "matchup"
    /\ matchup_out' = _extract_matchup(projection)
    /\ UNCHANGED <<projection, extracted>>
    /\ UNCHANGED NotExtract

XNext == CallExtractPropData \/ CallExtractMatchup

SpecExtract == XInit /\ [][XNext]_vars

(***************************************************************************)
(* get_nba_props on its own: one call of one scraper                       *)
(***************************************************************************)
PropsInit == PInit /\ XIdle /\ CIdle /\ LIdle /\ HIdle /\ MIdle /\ today = 1

SpecProps == PropsInit /\ [][PNext]_vars

(***************************************************************************)
(* save_to_csv on its own: calls on one scraper, over the days             *)
(***************************************************************************)
CsvInit == CInit /\ XIdle /\ PIdle /\ LIdle /\ HIdle /\ MIdle /\ today = 1

CsvNext == save_to_csv \/ DayPasses

SpecCsv == CsvInit /\ [][CsvNext]_vars

(***************************************************************************)
(* get_player_game_logs on its own: one call                               *)
(***************************************************************************)
LogsInit ==
    LInit /\ XIdle /\ PIdle /\ CIdle /\ HIdle /\ MIdle /\ today \in {20, 21}

SpecLogs == LogsInit /\ [][get_player_game_logs]_vars

(***************************************************************************)
(* _parse_minutes and _extract_opponent on their own                       *)
(***************************************************************************)
HelpersInit == HInit /\ XIdle /\ PIdle /\ CIdle /\ LIdle /\ MIdle /\ today = 1

SpecHelpers == HelpersInit /\ [][HelpersNext]_vars

(***************************************************************************)
(* get_multiple_players_game_logs on its own: one call                     *)
(***************************************************************************)
MultiInit == MInit /\ XIdle /\ PIdle /\ CIdle /\ LIdle /\ HIdle /\ today = 1

SpecMulti == MultiInit /\ [][MultiNext]_vars

(***************************************************************************)
(* Claims about the extraction (checked under SpecExtract)                 *)
(***************************************************************************)
HasNBA(sport) == IsStr(sport) /\ Contains(Upper(sport[2]), NBA)

\* The three fields resolve to usable values: a non-empty player and stat
\* type, and a line value that float() accepts.
Resolved(p) ==
    /\ Truthy(ResolvePlayer(p))
    /\ Truthy(ResolveStat(p))
    /\ ResolveLine(p) # None
    /\ CanFloat(ResolveLine(p))

\* C4 as stated: a projection whose resolved sport field is a string that
\* does not contain "NBA" (in any case) is discarded, and one whose resolved
\* sport field does contain it is kept when player, stat type and line
\* value resolve.
C4_AsStated ==
    xpc = "prop" =>
        LET sport == ResolveSport(projection)
        IN  /\ (IsStr(sport) /\ ~HasNBA(sport)) => extracted = <<>>
            /\ (HasNBA(sport) /\ Resolved(projection)) => extracted # <<>>

\* C4 (amended): a projection whose resolved sport value is non-empty and is
\* not a string containing "NBA" (in any case) is discarded; a projection
\* whose resolved sport value contains "NBA", or is missing, null or empty,
\* is kept when player, stat type and line value resolve.
C4_SportFilter ==
    xpc = "prop" =>
        LET sport == ResolveSport(projection)
        IN  /\ (Truthy(sport) /\ ~HasNBA(sport)) => extracted = <<>>
            /\ (HasNBA(sport) /\ Resolved(projection)) => extracted # <<>>
            /\ (~Truthy(sport) /\ Resolved(projection)) => extracted # <<>>

\* A projection with sport "NbA" (lower-case letter inside) has been kept.
C4_Witness ==
    /\ xpc = "prop"
    /\ projection["sport"] = Str(<<"N", "b", "A">>)
    /\ extracted # <<>>

\* A field is present under one of its aliases: some alias holds a value
\* that is not null.
PresentUnder(p, a, b, c) == \E k \in {a, b, c} : Get(p, k) # None

\* Every alias of the projection is either missing or well formed: a
\* non-empty string for player and stat type, a number for the line value.
WellFormedAliases(p) ==
    /\ \A k \in {"player_name", "name", "player", "stat_type", "category", "market"} :
            p[k] = Absent \/ (IsStr(p[k]) /\ Truthy(p[k]))
    /\ \A k \in {"line", "value", "projection"} : p[k] = Absent \/ IsNum(p[k])

\* C5 as stated: a projection that passes the sport filter yields a record
\* exactly when player, stat type and line value are each present under one
\* of their aliases, a line value of 0 included.
C5_AsStated ==
    (xpc = "prop" /\ WellFormedAliases(projection)
        /\ ~SportRejects(ResolveSport(projection))) =>
        (extracted # <<>> <=>
            /\ PresentUnder(projection, "player_name", "name", "player")
            /\ PresentUnder(projection, "stat_type", "category", "market")
            /\ PresentUnder(projection, "line", "value", "projection"))

\* The value of the first alias, in order, that is present and not null.
FirstNonNull(p, a, b, c) ==
    IF Get(p, a) # None THEN Get(p, a)
    ELSE IF Get(p, b) # None THEN Get(p, b)
    ELSE Get(p, c)

\* C6 as stated: each field of a returned record is the value of the first
\* alias, in priority order, that is present and not null, whatever that
\* value is (0 included); stated here for projections whose aliases are
\* missing or well formed.
C6_AsStated ==
    (xpc = "prop" /\ WellFormedAliases(projection) /\ extracted # <<>>) =>
        /\ extracted[1].player
               = FirstNonNull(projection, "player_name", "name", "player")
        /\ extracted[1].stat_type
               = FirstNonNull(projection, "stat_type", "category", "market")
        /\ CanFloat(FirstNonNull(projection, "line", "value", "projection"))
        /\ extracted[1].line_value
               = ToFloat(FirstNonNull(projection, "line", "value", "projection"))

\* What the claim says one matchup field gives: the string it holds, or
\* "<away> @ <home>" for a nested object with a home and an away entry.
Home(o) == IF Truthy(o[2]) THEN o[2] ELSE o[3]

Away(o) == IF Truthy(o[4]) THEN o[4] ELSE o[5]

Yields(v) ==
    \/ IsStr(v)
    \/ IsDict(v) /\ Truthy(Home(v)) /\ Truthy(Away(v))

Yield(v) ==
    IF IsStr(v) THEN v
    ELSE Str(Format(Away(v)) \o <<" ", "@", " ">> \o Format(Home(v)))

Team(p) == IF Truthy(p["team"]) THEN p["team"] ELSE p["player_team"]

Opponent(p) ==
    IF Truthy(p["opponent"]) THEN p["opponent"] ELSE p["opposing_team"]

\* C7: the matchup is what the first of matchup, game, opponent, teams,
\* fixture that yields one gives; only when none of the five yields one is it
\* "<team> vs <opponent>" (both present), else the team alone, else "Unknown".
C7_MatchupOrder ==
    xpc = "matchup" =>
        /\ \A i \in 1..5 :
            (/\ Yields(projection[matchup_fields[i]])
             /\ \A j \in 1..(i - 1) : ~Yields(projection[matchup_fields[j]]))
                => matchup_out = Yield(projection[matchup_fields[i]])
        /\ (\A i \in 1..5 : ~Yields(projection[matchup_fields[i]])) =>
            /\ (Truthy(Team(projection)) /\ Truthy(Opponent(projection))) =>
                matchup_out = Str(Format(Team(projection))
                                    \o <<" ", "v", "s", " ">>
                                    \o Format(Opponent(projection)))
            /\ (Truthy(Team(projection)) /\ ~Truthy(Opponent(projection))) =>
                matchup_out = Team(projection)
            /\ ~Truthy(Team(projection)) => matchup_out = Unknown

\* The fallback "<team> vs <opponent>" has been produced for a projection
\* whose opponent field is present but yields no matchup.
C7_Witness ==
    /\ xpc = "matchup"
    /\ projection["opponent"] = Num(50)
    /\ matchup_out = Str(LAL \o <<" ", "v", "s", " ", "5">>)

\* The fallback to the team alone has been produced.
C7_TeamAloneReached ==
    /\ xpc = "matchup"
    /\ \A i \in 1..5 : ~Yields(projection[matchup_fields[i]])
    /\ matchup_out = Str(BOS)

\* The fallback to "Unknown" has been produced.
C7_UnknownReached ==
    /\ xpc = "matchup"
    /\ projection["opposing_team"] = Str(MIA)
    /\ matchup_out = Unknown

(***************************************************************************)
(* Claims about get_nba_props (checked under SpecProps)                    *)
(***************************************************************************)
Running == pc \in {"start", "probe", "main_page", "fallback"}

\* C1: get_nba_props never raises and, whatever the mock flag and whatever
\* each request meets, it goes on until it returns, and what it returns is a
\* list with at least one record.
C1_NeverFails ==
    /\ pc # "raised"
    /\ Running => ENABLED PNext
    /\ pc = "done" => Len(returned) > 0

\* Every request failed at transport level, no mock flag, and the call has
\* returned the mock dataset.
C1_Witness ==
    /\ pc = "done"
    /\ ~use_mock
    /\ Len(calls) = 4
    /\ \A k \in 1..4 : calls[k].response.exc = "ConnectionError"
    /\ Len(returned) = 5

MainPageCalled == \E k \in 1..Len(calls) : calls[k].url = base_url

\* The endpoint answered with a parseable JSON body.
ReturnedJSON(r) == r.exc = "none" /\ r.json = "ok"

\* The endpoint answered with status 200 and a parseable JSON body.
ReturnedJSON200(r) == ReturnedJSON(r) /\ r.status = 200

\* The endpoints are requested in the order of api_endpoints; the one after
\* a winning endpoint is never requested; and the records returned are the
\* winning body's when it has any, else the main page's or the mock data.
FirstWins(Wins(_)) ==
    /\ \A k \in 1..Len(calls) :
        calls[k].url # base_url =>
            /\ k <= Len(api_endpoints)
            /\ calls[k].url = api_endpoints[k]
            /\ \A j \in 1..(k - 1) : ~Wins(calls[j].response)
    /\ \A k \in 1..Len(calls) :
        (pc = "done" /\ Wins(calls[k].response)) =>
            LET recs == _parse_api_response(calls[k].response.data, today)
            IN  IF recs # <<>> THEN returned = recs
                ELSE /\ MainPageCalled
                     /\ returned \in
                            {_scrape_main_page(calls[Len(calls)].response, today),
                             _get_mock_data(today)}

\* C2 as stated: the endpoints are requested in the fixed order, endpoint
\* i+1 only if endpoint i did not return a parseable JSON body, and once one
\* has, no later endpoint is requested and only its projections are used.
C2_AsStated == pc # "idle" => FirstWins(ReturnedJSON)

\* C2 (amended): the endpoints are requested in the fixed order, endpoint
\* i+1 only if endpoint i did not answer with status 200 and a parseable JSON
\* body, and once one has, no later endpoint is requested and, of the
\* endpoints' bodies, only its projections are used.
C2_FirstJSONWins == pc # "idle" => FirstWins(ReturnedJSON200)

\* The first endpoint failed, the second answered 200 with a JSON body that
\* holds a record, and the call returned that body's records.
C2_Witness ==
    /\ pc = "done"
    /\ Len(calls) = 2
    /\ calls[1].response.exc = "ConnectionError"
    /\ ReturnedJSON200(calls[2].response)
    /\ Len(returned) = 2
    /\ returned = _parse_api_response(calls[2].response.data, today)

\* The main page is requested only after the probing, once, and only when
\* the probing produced no records.
MainPageAfterProbing ==
    /\ pc = "main_page" => props = <<>>
    /\ \A k \in 1..Len(calls) :
        calls[k].url = base_url =>
            /\ k = Len(calls)
            /\ k > 1
            /\ \A j \in 1..(k - 1) :
                /\ calls[j].url # base_url
                /\ LoopRecords(calls[j].response, today) = <<>>

MockReturned == pc = "done" /\ ~use_mock /\ returned = _get_mock_data(today)

ScrapedNothing ==
    /\ MainPageCalled
    /\ _scrape_main_page(calls[Len(calls)].response, today) = <<>>

\* The last request ended in an exception that is neither a request error
\* nor a JSON decode error.
UnexpectedError ==
    /\ Len(calls) > 0
    /\ calls[Len(calls)].url # base_url
    /\ LoopOutcome(calls[Len(calls)].response) = "raise"

\* C3 as stated: without the mock flag, the main page is scraped only when
\* the probing produced no records, and the mock dataset is returned only
\* after the main page has been scraped and gave no records.
C3_AsStated ==
    /\ MainPageAfterProbing
    /\ MockReturned => ScrapedNothing

\* C3 (amended): without the mock flag, the main page is scraped only when
\* the probing produced no records, and the mock dataset is returned only
\* after the main page has been scraped and gave no records, or after an
\* error that is neither a request error nor a JSON decode error ended the
\* probing (the main page is then not scraped).
C3_FallbackOrder ==
    /\ MainPageAfterProbing
    /\ MockReturned => (ScrapedNothing \/ UnexpectedError)

\* Three endpoints answered 404, the main page held nothing, and the mock
\* dataset came back.
C3_Witness ==
    /\ MockReturned
    /\ Len(calls) = 4
    /\ \A k \in 1..3 : calls[k].response.status = 404
    /\ calls[4].response.status = 200
    /\ ScrapedNothing

RecordFields == {"player", "stat_type", "line_value", "matchup", "date"}

\* C9 as stated: every record get_nba_props returns has the five fields,
\* with player, stat_type, matchup and date strings and line_value a number.
C9_AsStated ==
    pc = "done" =>
        \A i \in 1..Len(returned) :
            /\ DOMAIN returned[i] = RecordFields
            /\ IsStr(returned[i].player)
            /\ IsStr(returned[i].stat_type)
            /\ IsNum(returned[i].line_value)
            /\ IsStr(returned[i].matchup)
            /\ IsStr(returned[i].date)

(***************************************************************************)
(* Claims about save_to_csv (checked under SpecCsv)                        *)
(***************************************************************************)
\* <output_dir>/nba_props_<YYYY-MM-DD>.csv
ExpectedPath(output_dir, day) ==
    output_dir \o <<"/", "n", "b", "a", "_", "p", "r", "o", "p", "s", "_">>
        \o IsoFormat(day) \o <<".", "c", "s", "v">>

\* Call k is the last save of a non-empty list to its directory on its day.
LastSave(k) ==
    /\ saves[k].props # <<>>
    /\ \A j \in (k + 1)..Len(saves) :
        ~ /\ saves[j].props # <<>>
          /\ saves[j].output_dir = saves[k].output_dir
          /\ saves[j].day = saves[k].day

\* The cell of a record under a column: its value, empty when it has none.
Cell(d, c) == IF DictHas(d, c) THEN DictGet(d, c) ELSE NaN

\* C8: after a save of a non-empty list the directory exists and the file
\* <output_dir>/nba_props_<day>.csv exists with the five columns in order,
\* and its path is what the call returned; the file holds one row per
\* record of the last such save to that directory on that day, whatever
\* it held before; and the saves create no other file.
C8_CsvOverwrite ==
    xpc = "idle" /\ pc = "idle" =>
        /\ \A k \in 1..Len(saves) :
            saves[k].props # <<>> =>
                LET path == ExpectedPath(saves[k].output_dir, saves[k].day)
                IN  /\ saves[k].path = path
                    /\ saves[k].output_dir \in dirs
                    /\ path \in DOMAIN files
                    /\ files[path].header = csv_columns
                    /\ LastSave(k) =>
                        /\ Len(files[path].lines) = Len(saves[k].props)
                        /\ \A i \in 1..Len(saves[k].props) :
                            files[path].lines[i] =
                                [j \in 1..5 |-> Cell(saves[k].props[i], csv_columns[j])]
        /\ \A q \in DOMAIN files :
            \/ files[q] = Junk
            \/ \E k \in 1..Len(saves) :
                /\ saves[k].props # <<>>
                /\ q = ExpectedPath(saves[k].output_dir, saves[k].day)

\* The day's file held something else, then two lists were saved to the
\* directory on that day: the file holds the second list's single row.
C8_Witness ==
    /\ Len(saves) = 3
    /\ today = 1
    /\ saves[1].props = <<StdDict>> /\ saves[1].output_dir = DataDir
    /\ saves[2].props = <<>>
    /\ saves[3].props = <<OddDict>> /\ saves[3].output_dir = DataDir
    /\ DOMAIN files = {ExpectedPath(DataDir, 1)}
    /\ files[ExpectedPath(DataDir, 1)].lines
            = <<<<Str(<<"A">>), Str(Assists), Num(65), NaN, Str(IsoFormat(1))>>>>

(***************************************************************************)
(* Claims about get_player_game_logs (checked under SpecLogs)              *)
(***************************************************************************)
\* C10: whenever get_player_game_logs returns (mock mode, a fetched frame,
\* an empty remote result, a failed fetch, or an exception while the frame
\* is processed) the table has exactly the columns date, opponent, points,
\* assists, rebounds, minutes, in that order, and every row has a cell under
\* each of them, whichever source columns the input had.
C10_CanonicalColumns ==
    lpc = "returned" =>
        /\ log_out.columns = canonical_columns
        /\ \A i \in 1..Len(log_out.rows) :
            DOMAIN log_out.rows[i] = SeqSet(canonical_columns)

\* A fetched frame without its PTS column has been processed: the except
\* clause returned the empty table with the six columns.
C10_Witness ==
    /\ lpc = "returned"
    /\ ~log_in.use_mock
    /\ log_in.remote[1] = "frame"
    /\ Len(log_in.remote[2].rows) = 2
    /\ ~HasColumn(log_in.remote[2], "PTS")
    /\ log_out = Frame(canonical_columns, <<>>)

\* The fetched frame holds only well-formed cells: its rows are rows of
\* GoodRows cut down to the frame's columns.
WellFormedFrame(df) ==
    \E rows \in SeqsUpTo(GoodRows, MaxRows), fmt \in {"iso", "jan"} :
        df = SourceFrame(df.columns, rows, fmt)

\* The call fetched a frame with rows and went on to process it.
Fetched ==
    /\ lpc = "returned"
    /\ ~log_in.use_mock
    /\ log_in.remote[1] = "frame"
    /\ Len(log_in.remote[2].rows) > 0

\* The cell the output has under `column` when the source has its column
\* `name`, and the zero it has otherwise.
CellOrZero(df, name, cell) == IF HasColumn(df, name) THEN cell ELSE Num(0)

\* C11 as stated: when the source frame lacks the PTS, AST, REB or MIN column
\* (its other cells being well formed), get_player_game_logs still returns one
\* record per source row, the missing field being 0 and the other fields
\* those of the source.
C11_AsStated ==
    (/\ Fetched
     /\ WellFormedFrame(log_in.remote[2])
     /\ HasColumn(log_in.remote[2], "GAME_DATE")
     /\ HasColumn(log_in.remote[2], "MATCHUP")) =>
        LET df == log_in.remote[2]
        IN  /\ Len(log_out.rows) = Len(df.rows)
            /\ \A i \in 1..Len(log_out.rows) :
                /\ log_out.rows[i]["points"] = CellOrZero(df, "PTS", Num(280))
                /\ log_out.rows[i]["assists"] = CellOrZero(df, "AST", Num(70))
                /\ log_out.rows[i]["rebounds"] = CellOrZero(df, "REB", Num(80))
                /\ log_out.rows[i]["minutes"] = CellOrZero(df, "MIN", Num(364))

Called(name) == \E k \in 1..Len(api_calls) : api_calls[k] = name

\* C12: the call raises player-not-found exactly when use_mock is false and
\* the name lookup finds no player, and then no game-log request is made;
\* with use_mock true it makes no lookup and no request and raises nothing,
\* whether or not the name could be resolved.
C12_NotFound ==
    lpc # "ready" /\ lpc # "idle" =>
        /\ lpc = "raised" <=> (~log_in.use_mock /\ ~log_in.found)
        /\ lpc = "raised" =>
            /\ Called("find_players_by_full_name")
            /\ ~Called("PlayerGameLog")
        /\ log_in.use_mock => (api_calls = <<>> /\ lpc = "returned")

\* In mock mode a name that cannot be resolved has got its table, with no
\* nba_api call made.
C12_Witness ==
    /\ lpc = "returned"
    /\ log_in.use_mock
    /\ ~log_in.found
    /\ api_calls = <<>>
    /\ Len(log_out.rows) = 5

\* The not-found error has been raised after the lookup alone.
C12_RaisedReached ==
    /\ lpc = "raised"
    /\ api_calls = <<"find_players_by_full_name">>

LogRecord(date, opponent, points, assists, rebounds, minutes) ==
    [date |-> date, opponent |-> opponent, points |-> points,
     assists |-> assists, rebounds |-> rebounds, minutes |-> minutes]

\* The fixed mock dataset, normalized: five games, most recent first.
NormalizedMock ==
    Frame(canonical_columns,
    <<LogRecord(Str(<<"2", "0", "2", "4", "-", "0", "1", "-", "1", "5">>), Str(<<"G", "S", "W">>),
                Num(280), Num(70), Num(80), Num(364)),
      LogRecord(Str(<<"2", "0", "2", "4", "-", "0", "1", "-", "1", "2">>), Str(<<"B", "O", "S">>),
                Num(250), Num(90), Num(60), Num(382)),
      LogRecord(Str(<<"2", "0", "2", "4", "-", "0", "1", "-", "1", "0">>), Str(<<"M", "I", "A">>),
                Num(320), Num(60), Num(110), Num(400)),
      LogRecord(Str(<<"2", "0", "2", "4", "-", "0", "1", "-", "0", "8">>), Str(<<"P", "H", "X">>),
                Num(220), Num(80), Num(70), Num(355)),
      LogRecord(Str(<<"2", "0", "2", "4", "-", "0", "1", "-", "0", "5">>), Str(<<"D", "E", "N">>),
                Num(300), Num(50), Num(90), Num(378))>>)

DateGE(x, y) == IsStr(x) /\ IsStr(y) /\ ~StrLess(x[2], y[2])

Descending(rows) ==
    \A i \in 1..(Len(rows) - 1) : DateGE(rows[i]["date"], rows[i + 1]["date"])

\* C14 as stated: the records returned are ordered by date descending: of
\* every two consecutive records the first has a date greater than or equal
\* to the date of the second, whatever the source rows.
C14_AsStated == lpc = "returned" => Descending(log_out.rows)

\* The order holds whenever the source has its GAME_DATE column.
C14_WithDates ==
    (lpc = "returned" /\ (log_in.use_mock \/ log_in.remote[1] = "raise"
                          \/ HasColumn(log_in.remote[2], "GAME_DATE")))
        => Descending(log_out.rows)

\* C16 as stated (second part): a malformed minutes value in one row, the
\* other cells of the frame being well formed, never makes
\* get_player_game_logs lose rows: every source row has its record.
C16_AsStated ==
    (/\ Fetched
     /\ log_in.remote[2].columns = source_columns
     /\ WellFormedFrame(
            Frame(source_columns,
                  [i \in 1..Len(log_in.remote[2].rows) |->
                    [log_in.remote[2].rows[i] EXCEPT !["MIN"] = Str(MIN3624)]])))
        => Len(log_out.rows) = Len(log_in.remote[2].rows)

(***************************************************************************)
(* Claims about _parse_minutes and _extract_opponent (checked under        *)
(* SpecHelpers)                                                            *)
(***************************************************************************)
\* t tenths of a minute is m minutes and sec seconds rounded to one decimal
\* place: no tenth is nearer.
NearestTenth(t, m, sec) ==
    /\ 6 * t - (60 * m + sec) <= 3
    /\ (60 * m + sec) - 6 * t <= 3

\* C15: for a minutes string "M:SS" _parse_minutes returns M + SS/60 rounded
\* to one decimal place, and for a bare numeric string it returns that
\* number.
C15_MinutesRounded ==
    hpc = "minutes" =>
        /\ \A m \in 0..MaxMins :
            (/\ IsStr(h_in)
             /\ Len(h_in[2]) > 3
             /\ SubSeq(h_in[2], 1, Len(h_in[2]) - 3) = IntStr(m)) =>
                \A sec \in SecondValues :
                    h_in[2] = MinSecTable[m, sec] =>
                        /\ h_out[1] = "ok"
                        /\ IsNum(h_out[2])
                        /\ NearestTenth(h_out[2][2], m, sec)
        /\ \A m \in 0..MaxMins :
            /\ h_in = Str(IntStr(m)) => h_out = <<"ok", Num(10 * m)>>
            /\ \A d \in {0, 5} :
                h_in = Str(Decimal(m, d)) => h_out = <<"ok", Num(10 * m + d)>>

\* "36:24" has given 36.4.
C15_Witness ==
    /\ hpc = "minutes"
    /\ h_in = Str(MIN3624)
    /\ h_out = <<"ok", Num(364)>>

\* "38:15", a tie, has given 38.2, and "36.5" has given 36.5.
C15_TieReached ==
    /\ hpc = "minutes"
    /\ h_in = Str(MIN3815)
    /\ h_out = <<"ok", Num(382)>>

\* C16 (first part): for a malformed or missing minutes value
\* _parse_minutes returns 0.0 and raises nothing.
C16_ZeroOnMalformed ==
    (hpc = "minutes" /\ h_in \in MalformedMinutes \cup {NaN})
        => h_out = <<"ok", Num(0)>>

\* sep occurs in s at position i.
OccursAt(s, sep, i) ==
    /\ i + Len(sep) - 1 <= Len(s)
    /\ SubSeq(s, i, i + Len(sep) - 1) = sep

Has(s, sep) == \E i \in 1..Len(s) : OccursAt(s, sep, i)

\* The text after the first occurrence of sep in s.
After(s, sep) ==
    LET first == CHOOSE i \in 1..Len(s) :
                    /\ OccursAt(s, sep, i)
                    /\ \A j \in 1..(i - 1) : ~OccursAt(s, sep, j)
    IN  SubSeq(s, first + Len(sep), Len(s))

\* The text before the first occurrence of sep in s, all of s without one.
Before(s, sep) ==
    IF Has(s, sep)
    THEN SubSeq(s, 1, Len(s) - Len(After(s, sep)) - Len(sep))
    ELSE s

\* C17 as stated: for a string that contains " vs. " or " @ " the result is
\* everything after the first occurrence of the separator; a string with
\* neither comes back unchanged; nothing is raised.
C17_AsStated ==
    (hpc = "opponent" /\ IsStr(h_in)) =>
        h_out = IF Has(h_in[2], VsSep) THEN Str(After(h_in[2], VsSep))
                ELSE IF Has(h_in[2], AtSep) THEN Str(After(h_in[2], AtSep))
                ELSE h_in

\* C17 (amended): for a string that contains " vs. ", else " @ ", the result
\* is the text between the first occurrence of that separator and its next
\* occurrence, or the end of the string when there is no other; a string
\* with neither separator, and a value that is no string, come back
\* unchanged.
C17_SecondToken ==
    hpc = "opponent" =>
        h_out = IF ~IsStr(h_in) THEN h_in
                ELSE IF Has(h_in[2], VsSep)
                     THEN Str(Before(After(h_in[2], VsSep), VsSep))
                ELSE IF Has(h_in[2], AtSep)
                     THEN Str(Before(After(h_in[2], AtSep), AtSep))
                ELSE h_in

\* "LAL vs. GSW vs. BOS" has given "GSW".
C17_Witness ==
    /\ hpc = "opponent"
    /\ h_in = Str(LAL \o VsSep \o GSW \o VsSep \o BOS)
    /\ h_out = Str(GSW)

(***************************************************************************)
(* Claims about get_multiple_players_game_logs (checked under SpecMulti)   *)
(***************************************************************************)
\* Pass k is the last one for its player name.
LastFetch(k) ==
    \A j \in (k + 1)..Len(fetches) :
        fetches[j].player_name # fetches[k].player_name

\* Pass k met the player-not-found error.
NotFoundAt(k) == ~fetches[k].in.use_mock /\ ~fetches[k].in.found

\* C18: get_multiple_players_game_logs never raises: every pass of the loop
\* leaves an entry for its name and the loop goes on to the next name, in the
\* order of the list; the mapping it returns has an entry for every
\* requested name, each a table with the six canonical columns; a player
\* whose fetch fails with player-not-found maps to the empty table, and the
\* names after it have been fetched all the same.
C18_EveryPlayer ==
    /\ mpc # "raised"
    /\ Len(fetches) <= Len(player_names)
    /\ \A k \in 1..Len(fetches) :
        /\ fetches[k].player_name = player_names[k]
        /\ fetches[k].player_name \in DOMAIN multi_results
    /\ mpc = "done" =>
        /\ DOMAIN multi_results = {player_names[k] : k \in 1..Len(player_names)}
        /\ \A name \in DOMAIN multi_results :
            multi_results[name].columns = canonical_columns
        /\ Len(fetches) = Len(player_names)
        /\ \A k \in 1..Len(fetches) :
            (NotFoundAt(k) /\ LastFetch(k)) =>
                multi_results[fetches[k].player_name] = Frame(canonical_columns, <<>>)

\* The first player was not found, the second was fetched: the first maps to
\* the empty table and the second to a table with a game.
C18_Witness ==
    /\ mpc = "done"
    /\ player_names = <<"Stephen Curry", "LeBron James">>
    /\ NotFoundAt(1)
    /\ fetches[2].in.found
    /\ multi_results["Stephen Curry"] = Frame(canonical_columns, <<>>)
    /\ Len(multi_results["LeBron James"].rows) = 1

====
